---- MODULE Spec2Model ----
(***************************************************************************)
(* Model of packages/lambda/src/shared/aws-clients.ts (the process-wide    *)
(* service client cache, its credential resolver and its cache key) and of *)
(* simulatePermissions (identity fetch, ARN normalization, the simulation  *)
(* loop).                                                                  *)
(*                                                                         *)
(* A JavaScript string is modelled as a sequence of one-character strings, *)
(* so that the two regular expressions of simulatePermissions are matched  *)
(* character by character.                                                 *)
(***************************************************************************)
EXTENDS Integers, Sequences, FiniteSets, TLC

VARIABLES
    env,         \* process.env and the runtime context; never written by the code
    clients,     \* _clients: fingerprint -> client handle
    constructed, \* history: every <<fingerprint, handle id>> a constructor returned
    returned,    \* history: every <<arguments, handle id>> getServiceClient returned
    last,        \* history: what the latest getServiceClient call did
    calls,       \* number of direct getServiceClient calls made so far
    pc,          \* per run of simulatePermissions: where it is suspended
    opts,        \* per run: the options it was called with
    principal,   \* per run: the raw ARN fetched and the normalized arn
    idx,         \* per run: number of required permissions already simulated
    results,     \* per run: the local results array
    events,      \* per run: the calls it made and the answers it got, in order
    err,         \* per run: the error the run was rejected with
    probe        \* fingerprint derivation on two configurations

vars == <<env, clients, constructed, returned, last, calls, pc, opts, principal,
          idx, results, events, err, probe>>

cacheVars == <<clients, constructed, returned, last>>
runVars == <<pc, opts, principal, idx, results, events, err>>

(***************************************************************************)
(* Values                                                                  *)
(***************************************************************************)
\* JavaScript null / undefined, distinct from every string of the model
Null == "<null>"
Undefined == "<undefined>"

\* the empty string, also the value of an environment variable that is not set
\* (both are falsy in the conditions of getCredentials and getCredentialsHash)
Unset == ""

(***************************************************************************)
(* Strings as sequences of characters                                      *)
(***************************************************************************)
Letters == {"a", "b", "c", "d", "e", "f", "g", "h", "i", "j", "k", "l", "m",
            "n", "o", "p", "q", "r", "s", "t", "u", "v", "w", "x", "y", "z"}
UpperLetters == {"A", "B", "C", "D", "E", "F", "G", "H", "I", "J", "K", "L", "M",
                 "N", "O", "P", "Q", "R", "S", "T", "U", "V", "W", "X", "Y", "Z"}
Digits == {"0", "1", "2", "3", "4", "5", "6", "7", "8", "9"}

\* the character classes of the two regular expressions
IsWordChar(c) == c \in Letters \cup UpperLetters \cup Digits \cup {"_"} \* [\w\d]
IsDigit(c) == c \in Digits                                \* \d
IsNotSlash(c) == c # "/"                                  \* [^\/]

\* the line terminators of JavaScript; U+2028 and U+2029 are each one
\* character of a string, written here by name
LineSeparator == "<U+2028>"
ParagraphSeparator == "<U+2029>"
LineTerminators == {"\n", "\r", LineSeparator, ParagraphSeparator}

\* . without the s flag: any character but a line terminator
IsDot(c) == c \notin LineTerminators


\* whether lit occurs in s at position i
HasAt(s, i, lit) ==
    /\ i + Len(lit) - 1 <= Len(s)
    /\ SubSeq(s, i, i + Len(lit) - 1) = lit

InClass(c, class) ==
    CASE class = "word" -> IsWordChar(c)
      [] class = "digit" -> IsDigit(c)
      [] class = "notslash" -> IsNotSlash(c)
      [] class = "dot" -> IsDot(c)

\* length of the longest run of characters of a class in s from position i:
\* what a greedy X+ consumes
RECURSIVE RunLen(_, _, _)
RunLen(s, i, class) ==
    IF i <= Len(s) /\ InClass(s[i], class)
    THEN 1 + RunLen(s, i + 1, class)
    ELSE 0

\* what (.*) captures at position i of s (1-based): the characters up to the
\* first line terminator, or to the end of s
DotStar(s, i) == SubSeq(s, i, i + RunLen(s, i, "dot") - 1)

StrArnAws == <<"a", "r", "n", ":", "a", "w", "s", ":">>
StrIam == <<"i", "a", "m">>
StrSts == <<"s", "t", "s">>
StrUser == <<"u", "s", "e", "r">>
StrAssumedRole == <<"a", "s", "s", "u", "m", "e", "d", "-", "r", "o", "l", "e">>
StrRoleSlash == <<"r", "o", "l", "e", "/">>
NoMatch == [ok |-> FALSE]

\* /arn:aws:([\w\d]+)::(\d+):([^\/]+)(.*)/ tried at position i of s.
\* The greedy groups never need to give characters back: the character that
\* must follow group 1 and group 2 is outside their class, and (.*) accepts
\* whatever follows group 3 (it may be empty).
ArnRegexAt(s, i) ==
    IF ~HasAt(s, i, StrArnAws) THEN NoMatch
    ELSE LET j1 == i + Len(StrArnAws)
             n1 == RunLen(s, j1, "word")
             j2 == j1 + n1 + 2
             n2 == RunLen(s, j2, "digit")
             j3 == j2 + n2 + 1
             n3 == RunLen(s, j3, "notslash")
         IN  IF /\ n1 >= 1
                /\ HasAt(s, j1 + n1, <<":", ":">>)
                /\ n2 >= 1
                /\ HasAt(s, j2 + n2, <<":">>)
                /\ n3 >= 1
             THEN [ok |-> TRUE,
                   g1 |-> SubSeq(s, j1, j1 + n1 - 1),
                   g2 |-> SubSeq(s, j2, j2 + n2 - 1),
                   g3 |-> SubSeq(s, j3, j3 + n3 - 1),
                   g4 |-> DotStar(s, j3 + n3)]
             ELSE NoMatch

\* a bug: the role pattern captures the session name as the role name
RoleRegexAtSession(s, i) ==
    IF ~HasAt(s, i, <<"/">>) THEN NoMatch
    ELSE LET n1 == RunLen(s, i + 1, "notslash")
         IN  IF n1 >= 1 /\ HasAt(s, i + 1 + n1, <<"/">>)
             THEN [ok |-> TRUE,
                   g1 |-> DotStar(s, i + n1 + 2),
                   g2 |-> SubSeq(s, i + 1, i + n1)]
             ELSE NoMatch

\* /\/([^\/]+)\/(.*)/ tried at position i of s
RoleRegexAt(s, i) ==
    IF ~HasAt(s, i, <<"/">>) THEN NoMatch
    ELSE LET n1 == RunLen(s, i + 1, "notslash")
         IN  IF n1 >= 1 /\ HasAt(s, i + 1 + n1, <<"/">>)
             THEN [ok |-> TRUE,
                   g1 |-> SubSeq(s, i + 1, i + n1),
                   g2 |-> DotStar(s, i + n1 + 2)]
             ELSE NoMatch

\* String.prototype.match with a regular expression that has no ^ and no g
\* flag: the match at the leftmost position of s where the expression matches
RECURSIVE MatchArnFrom(_, _)
MatchArnFrom(s, i) ==
    IF i > Len(s) THEN NoMatch
    ELSE IF ArnRegexAt(s, i).ok THEN ArnRegexAt(s, i)
    ELSE MatchArnFrom(s, i + 1)

RECURSIVE MatchRoleFrom(_, _)
MatchRoleFrom(s, i) ==
    IF i > Len(s) THEN NoMatch
    ELSE IF RoleRegexAt(s, i).ok THEN RoleRegexAt(s, i)
    ELSE MatchRoleFrom(s, i + 1)

MatchArn(s) == MatchArnFrom(s, 1)
MatchRole(s) == MatchRoleFrom(s, 1)

ErrNoIdentity == "No valid AWS calling identity detected"
ErrUnsupportedArn == "Unsupported AWS ARN detected"
ErrUnsupportedAssumedRole == "Unsupported AWS Assumed-Role ARN detected"

\* the principal ARN simulatePermissions derives from callerIdentity.Arn, or
\* the error it throws
NormalizeArn(raw) ==
    LET arnComponents == MatchArn(raw)
    IN  IF ~arnComponents.ok THEN [ok |-> FALSE, error |-> ErrUnsupportedArn]
        ELSE IF arnComponents.g1 = StrIam /\ arnComponents.g3 = StrUser
             THEN [ok |-> TRUE, arn |-> raw]
        ELSE IF arnComponents.g1 = StrSts /\ arnComponents.g3 = StrAssumedRole
             THEN LET assumedRoleComponents == MatchRole(arnComponents.g4)
                  IN  IF ~assumedRoleComponents.ok
                      THEN [ok |-> FALSE, error |-> ErrUnsupportedAssumedRole]
                      ELSE [ok |-> TRUE,
                            arn |-> StrArnAws \o StrIam \o <<":", ":">>
                                    \o arnComponents.g2 \o <<":">>
                                    \o StrRoleSlash \o assumedRoleComponents.g1]
        ELSE [ok |-> FALSE, error |-> ErrUnsupportedArn]

(***************************************************************************)
(* Credential Resolver and Cache Key Deriver (aws-clients.ts)              *)
(***************************************************************************)
\* a string is truthy unless it is empty; null and undefined are falsy
Truthy(v) == v # Unset /\ v # Null /\ v # Undefined

\* isInsideLambda(), read from the runtime context
isInsideLambda(e) == e.insideLambda

CredUndefined == [type |-> "undefined"]

\* a bug: the profile variable is consulted before isInsideLambda()
getCredentialsProfileFirst(e) ==
    IF Truthy(e.REMOTION_AWS_PROFILE)
    THEN [type |-> "fromIni", profile |-> e.REMOTION_AWS_PROFILE]
    ELSE IF isInsideLambda(e) THEN CredUndefined
    ELSE IF Truthy(e.REMOTION_AWS_ACCESS_KEY_ID)
            /\ Truthy(e.REMOTION_AWS_SECRET_ACCESS_KEY)
         THEN [type |-> "keys",
               accessKeyId |-> e.REMOTION_AWS_ACCESS_KEY_ID,
               secretAccessKey |-> e.REMOTION_AWS_SECRET_ACCESS_KEY]
    ELSE IF Truthy(e.AWS_ACCESS_KEY_ID) /\ Truthy(e.AWS_SECRET_ACCESS_KEY)
         THEN [type |-> "keys",
               accessKeyId |-> e.AWS_ACCESS_KEY_ID,
               secretAccessKey |-> e.AWS_SECRET_ACCESS_KEY]
    ELSE CredUndefined

\* getCredentials(): undefined, the fromIni provider of a profile, or a key pair
getCredentials(e) ==
    IF isInsideLambda(e) THEN CredUndefined
    ELSE IF Truthy(e.REMOTION_AWS_PROFILE)
         THEN [type |-> "fromIni", profile |-> e.REMOTION_AWS_PROFILE]
    ELSE IF Truthy(e.REMOTION_AWS_ACCESS_KEY_ID)
            /\ Truthy(e.REMOTION_AWS_SECRET_ACCESS_KEY)
         THEN [type |-> "keys",
               accessKeyId |-> e.REMOTION_AWS_ACCESS_KEY_ID,
               secretAccessKey |-> e.REMOTION_AWS_SECRET_ACCESS_KEY]
    ELSE IF Truthy(e.AWS_ACCESS_KEY_ID) /\ Truthy(e.AWS_SECRET_ACCESS_KEY)
         THEN [type |-> "keys",
               accessKeyId |-> e.AWS_ACCESS_KEY_ID,
               secretAccessKey |-> e.AWS_SECRET_ACCESS_KEY]
    ELSE CredUndefined

\* JSON.stringify of a string or null, as tokens
JsonValue(v) == IF v = Null THEN <<"null">> ELSE <<"\"", v, "\"">>

\* the members JSON.stringify writes for {...(getCredentials() ?? {})}: the
\* two fields of a key pair; undefined spreads as {} and the fromIni provider,
\* a function, has no own enumerable property
JsonSpreadCredentials(cred) ==
    IF cred.type = "keys"
    THEN <<"accessKeyId", ":">> \o JsonValue(cred.accessKeyId)
         \o <<",", "secretAccessKey", ":">> \o JsonValue(cred.secretAccessKey)
    ELSE <<>>

\* the "credentials" member of the descriptor getCredentialsHash serializes
JsonCredentials(e) ==
    <<"{">>
    \o (IF ~Truthy(e.REMOTION_AWS_PROFILE) THEN <<>>
        ELSE <<"awsProfile", ":">> \o JsonValue(e.REMOTION_AWS_PROFILE))
    \o (IF Truthy(e.REMOTION_AWS_PROFILE) THEN <<>>
        ELSE JsonSpreadCredentials(getCredentials(e)))
    \o <<"}">>

\* customCredentials: null (a record of its own here), or an object: its
\* own enumerable properties as <<name, value>> pairs in insertion order,
\* with string | null values
NullCredentials == [null |-> TRUE]

Object(props) == [props |-> props]

\* cc[name]: the value of the property, undefined when cc has none
Prop(cc, name) ==
    IF \E k \in 1..Len(cc.props) : cc.props[k][1] = name
    THEN cc.props[CHOOSE k \in 1..Len(cc.props) : cc.props[k][1] = name][2]
    ELSE Undefined

\* the members JSON.stringify writes for a property list: every property in
\* insertion order, comma-separated; a property whose value is undefined is
\* left out
RECURSIVE JsonMembers(_, _)
JsonMembers(props, first) ==
    IF props = <<>> THEN <<>>
    ELSE IF Head(props)[2] = Undefined THEN JsonMembers(Tail(props), first)
    ELSE (IF first THEN <<>> ELSE <<",">>)
         \o <<Head(props)[1], ":">> \o JsonValue(Head(props)[2])
         \o JsonMembers(Tail(props), FALSE)

\* JSON.stringify(customCredentials): null, or the object verbatim
JsonCustomCredentials(cc) ==
    IF cc = NullCredentials THEN <<"null">>
    ELSE <<"{">> \o JsonMembers(cc.props, TRUE) \o <<"}">>

\* a bug: the region is left out of the serialized descriptor
JsonDescriptorNoRegion(e, args) ==
    <<"{", "credentials", ":">> \o JsonCredentials(e)
    \o <<",", "customCredentials", ":">>
    \o JsonCustomCredentials(args.customCredentials)
    \o <<",", "service", ":">> \o JsonValue(args.service)
    \o <<"}">>

\* JSON.stringify({credentials, customCredentials, region, service})
JsonDescriptor(e, args) ==
    <<"{", "credentials", ":">> \o JsonCredentials(e)
    \o <<",", "customCredentials", ":">>
    \o JsonCustomCredentials(args.customCredentials)
    \o <<",", "region", ":">> \o JsonValue(args.region)
    \o <<",", "service", ":">> \o JsonValue(args.service)
    \o <<"}">>

\* createHash('sha256').update(text).digest('base64'): the digest is taken to
\* be injective on the serialized text, and differs from the text itself
Sha256Base64(text) == <<"sha256">> \o text

getCredentialsHash(e, args) == Sha256Base64(JsonDescriptor(e, args))

\* a bug: fingerprint derivation resolves credentials even with a profile set
HashResolutionsAlways(e) == 1

\* how many times one getCredentialsHash call runs getCredentials()
HashResolutions(e) == IF Truthy(e.REMOTION_AWS_PROFILE) THEN 0 ELSE 1

(***************************************************************************)
(* Service Client Cache (aws-clients.ts)                                   *)
(***************************************************************************)
NoClient == "TypeError: unknown client"

\* a bug: a service that is not known is given the S3 constructor
ClientForDefaultS3(service) ==
    CASE service = "cloudwatch" -> "CloudWatchLogsClient"
      [] service = "lambda" -> "LambdaClient"
      [] service = "iam" -> "IAMClient"
      [] service = "sts" -> "STSClient"
      [] service = "servicequotas" -> "ServiceQuotasClient"
      [] OTHER -> "S3Client"

\* the constructor getServiceClient selects for a service, or the TypeError
ClientFor(service) ==
    CASE service = "cloudwatch" -> "CloudWatchLogsClient"
      [] service = "lambda" -> "LambdaClient"
      [] service = "s3" -> "S3Client"
      [] service = "iam" -> "IAMClient"
      [] service = "sts" -> "STSClient"
      [] service = "servicequotas" -> "ServiceQuotasClient"
      [] OTHER -> NoClient

\* checkCredentials(): passes when credentials are resolvable
CheckCredentialsOk(e) ==
    isInsideLambda(e) \/ getCredentials(e) # CredUndefined

\* a bug: the cache is never found to hold a key
CacheHasNever(c, key) == FALSE

\* !_clients[key] is false: a stored client object is always truthy
CacheHas(c, key) == key \in DOMAIN c

\* a bug: storing a handle replaces the whole mapping
CacheStoreEvicting(c, key, handle) == [k \in {key} |-> handle]

\* _clients[key] = handle
CacheStore(c, key, handle) ==
    [k \in DOMAIN c \cup {key} |-> IF k = key THEN handle ELSE c[k]]

DefaultRegion == "us-east-1"

\* a bug: a client for a custom endpoint is given the requested region
ClientConfigRequestedRegion(e, args) ==
    [region |-> args.region,
     credentials |->
         IF args.customCredentials = NullCredentials THEN getCredentials(e)
         ELSE IF Truthy(Prop(args.customCredentials, "accessKeyId"))
                 /\ Truthy(Prop(args.customCredentials, "secretAccessKey"))
         THEN [type |-> "keys",
               accessKeyId |-> Prop(args.customCredentials, "accessKeyId"),
               secretAccessKey |-> Prop(args.customCredentials, "secretAccessKey")]
         ELSE CredUndefined,
     endpoint |-> IF args.customCredentials = NullCredentials THEN Undefined
                  ELSE Prop(args.customCredentials, "endpoint")]

\* the configuration handed to new Client(...) on a cache miss
ClientConfig(e, args) ==
    IF args.customCredentials # NullCredentials
    THEN [region |-> DefaultRegion,
          credentials |->
              IF Truthy(Prop(args.customCredentials, "accessKeyId"))
                 /\ Truthy(Prop(args.customCredentials, "secretAccessKey"))
              THEN [type |-> "keys",
                    accessKeyId |-> Prop(args.customCredentials, "accessKeyId"),
                    secretAccessKey |-> Prop(args.customCredentials, "secretAccessKey")]
              ELSE CredUndefined,
          endpoint |-> Prop(args.customCredentials, "endpoint")]
    ELSE [region |-> args.region,
          credentials |-> getCredentials(e),
          endpoint |-> Undefined]

\* how many times building that configuration runs getCredentials()
ConfigResolutions(args) ==
    IF args.customCredentials # NullCredentials THEN 0 ELSE 1

\* new Client(config): a fresh object, identified by id
NewClient(Client, config, id) ==
    [id |-> id, kind |-> Client, region |-> config.region,
     credentials |-> config.credentials, endpoint |-> config.endpoint]

NoHandle == [id |-> 0]

\* a bug: the client is constructed and stored first, the credential check
\* comes last
MissStepsCheckLast(checkOk, ctorOk) ==
    (IF ctorOk THEN <<"new Client", "store">> ELSE <<"new Client">>)
    \o (IF ctorOk THEN <<"checkCredentials">> ELSE <<>>)

\* what the body of if (!_clients[key]) does, in order: checkCredentials(),
\* then new Client(...), then the assignment to _clients[key]; a throw ends it
MissSteps(checkOk, ctorOk) ==
    <<"checkCredentials">>
    \o (IF ~checkOk THEN <<>>
        ELSE IF ~ctorOk THEN <<"new Client">>
        ELSE <<"new Client", "store">>)

\* a bug: a placeholder is stored under the key before the check and the
\* construction, and stays there when they throw
CacheAfterThrowPoisoned(c, key) == CacheStore(c, key, NoHandle)

\* _clients after checkCredentials() or new Client(...) threw: the assignment
\* _clients[key] = ... was never reached
CacheAfterThrow(c, key) == c

\* One call getServiceClient(args) on cache c in environment e. id is the
\* identity a newly constructed client gets, ctorOk whether the SDK's
\* constructor returns (rather than throws). The result holds the outcome,
\* the cache afterwards, and what the call did.
getServiceClient(c, e, args, id, ctorOk) ==
    LET Client == ClientFor(args.service)
        key == getCredentialsHash(e, args)
        base == [args |-> args, outcome |-> "returned", clients |-> c,
                 key |-> key, hit |-> FALSE, handle |-> NoHandle,
                 hashResolves |-> HashResolutions(e), ctorResolves |-> 0,
                 checks |-> 0, built |-> FALSE,
                 steps |-> <<"Client", "getCredentialsHash">>
                           \o (IF CacheHas(c, key) THEN <<>>
                               ELSE MissSteps(CheckCredentialsOk(e), ctorOk))]
    IN  IF Client = NoClient
        THEN [base EXCEPT !.outcome = NoClient, !.key = <<>>,
                          !.hashResolves = 0, !.steps = <<"Client">>]
        ELSE IF CacheHas(c, key)
        THEN [base EXCEPT !.hit = TRUE, !.handle = c[key]]
        ELSE IF ~CheckCredentialsOk(e)
        THEN [base EXCEPT !.outcome = "CredentialsMissing", !.checks = 1,
                          !.clients = CacheAfterThrow(c, key)]
        ELSE IF ~ctorOk
        THEN [base EXCEPT !.outcome = "ConstructFailed", !.checks = 1,
                          !.ctorResolves = ConfigResolutions(args),
                          !.clients = CacheAfterThrow(c, key)]
        ELSE LET handle == NewClient(Client, ClientConfig(e, args), id)
             IN  [base EXCEPT !.clients = CacheStore(c, key, handle),
                              !.handle = handle, !.checks = 1,
                              !.ctorResolves = ConfigResolutions(args),
                              !.built = TRUE]

\* getStsClient(region)
StsArgs(region) ==
    [region |-> region, service |-> "sts", customCredentials |-> NullCredentials]

(***************************************************************************)
(* Bounds and input sets                                                   *)
(***************************************************************************)
MaxCalls == 2         \* direct getServiceClient calls per behaviour
NumPermissions == 2   \* entries of the required-permission table
MaxResults == 2       \* results one simulateRule call returns at most

Procs == {1, 2}       \* concurrent runs of simulatePermissions

Regions == {"eu-central-1", "us-east-1"}

Env(lambda, profile, rKey, rSecret, aKey, aSecret) ==
    [insideLambda |-> lambda,
     REMOTION_AWS_PROFILE |-> profile,
     REMOTION_AWS_ACCESS_KEY_ID |-> rKey,
     REMOTION_AWS_SECRET_ACCESS_KEY |-> rSecret,
     AWS_ACCESS_KEY_ID |-> aKey,
     AWS_SECRET_ACCESS_KEY |-> aSecret]

\* the static table requiredPermissions: {actions, resource} entries
RequiredPermissions ==
    [i \in 1..NumPermissions |->
        [actions |-> <<"action", ToString(i)>>, resource |-> ToString(i)]]

\* retries: 2, passed to every simulateRule call
Retries == 2

ResultAllowed == [name |-> "a", decision |-> "allowed"]
ResultDenied == [name |-> "b", decision |-> "implicitDeny"]
ResultPool == {ResultAllowed, ResultDenied}

\* the result lists simulateRule may return, up to n entries
ResultLists(pool, n) == UNION {[1..k -> pool] : k \in 0..n}

(***************************************************************************)
(* simulatePermissions                                                     *)
(***************************************************************************)
NoPrincipal == [raw |-> <<>>, arn |-> <<>>]
NoOptions == [region |-> Unset, onSimulation |-> FALSE]

\* a bug: the rule is simulated in the default region, not the requested one
SimulateRuleCallDefaultRegion(i, arn, region) ==
    [ev |-> "simulateRule", perm |-> i,
     actionNames |-> RequiredPermissions[i].actions,
     arn |-> arn, region |-> DefaultRegion,
     resource |-> RequiredPermissions[i].resource,
     retries |-> Retries]

\* the simulateRule call made for required permission i
SimulateRuleCall(i, arn, region) ==
    [ev |-> "simulateRule", perm |-> i,
     actionNames |-> RequiredPermissions[i].actions,
     arn |-> arn, region |-> region,
     resource |-> RequiredPermissions[i].resource,
     retries |-> Retries]

\* a bug: new results are inserted before the earlier ones
PushResultsFront(acc, list, n) == SubSeq(list, 1, n) \o acc

\* results.push(res) for the first n entries of the list a call returned
PushResults(acc, list, n) == acc \o SubSeq(list, 1, n)

\* a bug: the callback sees the results of a list last to first
CallbackEventsReversed(supplied, i, list, n) ==
    IF supplied
    THEN [k \in 1..n |->
            [ev |-> "onSimulation", perm |-> i, res |-> list[n + 1 - k]]]
    ELSE <<>>

\* a bug: the callback is never invoked
CallbackEventsNone(supplied, i, list, n) == <<>>

\* options.onSimulation?.(res) for the first n entries of the list returned
\* for required permission i: one invocation each, in order, if supplied
CallbackEvents(supplied, i, list, n) ==
    IF supplied
    THEN [k \in 1..n |-> [ev |-> "onSimulation", perm |-> i, res |-> list[k]]]
    ELSE <<>>

\* a bug: a failed simulateRule call is swallowed and the loop goes on
SwallowRuleFailure == FALSE

\* a rejected await is not caught: the run is rejected with that failure
AbortOnRuleFailure == TRUE

\* a bug: after the last required permission the run starts over
LoopStepRestart(i, arn, region) ==
    IF i < Len(RequiredPermissions)
    THEN [pc |-> "awaitRule", events |-> <<SimulateRuleCall(i + 1, arn, region)>>]
    ELSE [pc |-> "idle", events |-> <<>>]

\* What the for loop does once i required permissions are done: the next
\* simulateRule call, or return {results}
LoopStep(i, arn, region) ==
    IF i < Len(RequiredPermissions)
    THEN [pc |-> "awaitRule", events |-> <<SimulateRuleCall(i + 1, arn, region)>>]
    ELSE [pc |-> "done", events |-> <<[ev |-> "return"]>>]

(***************************************************************************)
(* Actions                                                                 *)
(***************************************************************************)
\* the identity of the next client object constructed
NextId == Cardinality(constructed) + 1

Summary(r) ==
    [args |-> r.args, outcome |-> r.outcome, key |-> r.key, hit |-> r.hit,
     handle |-> r.handle.id, hashResolves |-> r.hashResolves,
     ctorResolves |-> r.ctorResolves, checks |-> r.checks, built |-> r.built,
     steps |-> r.steps]

\* the effect of one getServiceClient call with result r on the cache and on
\* the history variables
ApplyCall(r) ==
    /\ clients' = r.clients
    /\ constructed' = IF r.built
                      THEN constructed \cup {<<r.key, r.handle.id>>}
                      ELSE constructed
    /\ returned' = IF r.outcome = "returned"
                   THEN returned \cup {<<r.args, r.handle.id>>}
                   ELSE returned
    /\ last' = Summary(r)

\* a caller other than simulatePermissions calls getServiceClient(args)
DirectCall(args, ctorOk) ==
    /\ calls < MaxCalls
    /\ calls' = calls + 1
    /\ ApplyCall(getServiceClient(clients, env, args, NextId, ctorOk))
    /\ UNCHANGED <<env, runVars, probe>>

\* simulatePermissions(options) is called: getStsClient(region) runs and the
\* GetCallerIdentity request is sent; the run suspends at the await
SimStart(p, region, supplied, ctorOk) ==
    LET r == getServiceClient(clients, env, StsArgs(region), NextId, ctorOk)
    IN  /\ pc[p] = "idle"
        /\ ApplyCall(r)
        /\ opts' = [opts EXCEPT ![p] = [region |-> region,
                                        onSimulation |-> supplied]]
        /\ IF r.outcome = "returned"
           THEN /\ pc' = [pc EXCEPT ![p] = "awaitIdentity"]
                /\ events' = [events EXCEPT
                                ![p] = <<[ev |-> "send", client |-> r.handle.id]>>]
                /\ err' = err
           ELSE /\ pc' = [pc EXCEPT ![p] = "failed"]
                /\ err' = [err EXCEPT ![p] = r.outcome]
                /\ events' = events
        /\ UNCHANGED <<env, calls, principal, idx, results, probe>>

\* the run is rejected with error e
Reject(p, e) ==
    /\ pc' = [pc EXCEPT ![p] = "failed"]
    /\ err' = [err EXCEPT ![p] = e]

\* a bug: only a missing response is caught, not a response without Arn
HasIdentityUnlessUndefined(resp) == resp.kind # "undefined"

\* !callerIdentity || !callerIdentity.Arn is false: there is a response and
\* its Arn is a non-empty string
HasIdentity(resp) ==
    resp.kind # "undefined" /\ resp.hasArn /\ resp.Arn # <<>>

\* the GetCallerIdentity request settles with resp: the identity is checked
\* and normalized, and the loop makes its first simulateRule call (or the run
\* returns, the table being empty)
IdentityReturn(p, resp) ==
    LET settled == <<[ev |-> "identity", resp |-> resp]>>
    IN  /\ pc[p] = "awaitIdentity"
        /\ IF resp.kind = "throws"
           THEN /\ Reject(p, "IdentityFetchFailed")
                /\ events' = [events EXCEPT ![p] = @ \o settled]
                /\ UNCHANGED <<principal, results>>
           ELSE IF ~HasIdentity(resp)
           THEN /\ Reject(p, ErrNoIdentity)
                /\ events' = [events EXCEPT ![p] = @ \o settled]
                /\ UNCHANGED <<principal, results>>
           ELSE LET n == NormalizeArn(resp.Arn)
                IN  IF ~n.ok
                    THEN /\ Reject(p, n.error)
                         /\ principal' = [principal EXCEPT
                                            ![p] = [raw |-> resp.Arn, arn |-> <<>>]]
                         /\ events' = [events EXCEPT ![p] = @ \o settled]
                         /\ UNCHANGED results
                    ELSE LET step == LoopStep(0, n.arn, opts[p].region)
                         IN  /\ principal' = [principal EXCEPT
                                                ![p] = [raw |-> resp.Arn,
                                                        arn |-> n.arn]]
                             /\ results' = [results EXCEPT ![p] = <<>>]
                             /\ events' = [events EXCEPT
                                             ![p] = @ \o settled \o step.events]
                             /\ pc' = [pc EXCEPT ![p] = step.pc]
                             /\ err' = err
        /\ UNCHANGED <<env, cacheVars, calls, opts, idx, probe>>

\* the awaited simulateRule call settles with out: on a result list every
\* entry is pushed and handed to onSimulation (which throws at its throwAt-th
\* invocation, if throwAt is one), then the loop goes on
RuleReturn(p, out, throwAt) ==
    LET i == idx[p] + 1
        failed == out.kind = "throws"
        settled == IF failed
                   THEN <<[ev |-> "ruleFailed", perm |-> i]>>
                   ELSE <<[ev |-> "ruleReturned", perm |-> i, list |-> out.list]>>
        list == IF failed THEN <<>> ELSE out.list
        thrown == opts[p].onSimulation /\ throwAt \in 1..Len(list)
        n == IF thrown THEN throwAt ELSE Len(list)
        seen == settled \o CallbackEvents(opts[p].onSimulation, i, list, n)
        step == LoopStep(i, principal[p].arn, opts[p].region)
    IN  /\ pc[p] = "awaitRule"
        /\ IF failed /\ AbortOnRuleFailure
           THEN /\ Reject(p, "SimulationCallFailure")
                /\ events' = [events EXCEPT ![p] = @ \o settled]
                /\ UNCHANGED <<idx, results>>
           ELSE /\ results' = [results EXCEPT ![p] = PushResults(@, list, n)]
                /\ IF thrown
                   THEN /\ Reject(p, "CallbackError")
                        /\ events' = [events EXCEPT ![p] = @ \o seen]
                        /\ idx' = idx
                   ELSE /\ idx' = [idx EXCEPT ![p] = i]
                        /\ events' = [events EXCEPT ![p] = @ \o seen \o step.events]
                        /\ pc' = [pc EXCEPT ![p] = step.pc]
                        /\ err' = err
        /\ UNCHANGED <<env, cacheVars, calls, opts, principal, probe>>

(***************************************************************************)
(* Inputs                                                                  *)
(***************************************************************************)
\* environments: a tool-specific key pair, a named profile, the managed
\* execution environment, and one with no complete key pair
EnvKeys == Env(FALSE, Unset, "k1", "s1", Unset, Unset)
EnvProfile == Env(FALSE, "p1", Unset, Unset, "k1", "s1")
EnvLambda == Env(TRUE, Unset, Unset, Unset, Unset, Unset)
EnvNone == Env(FALSE, Unset, "k1", Unset, Unset, "s1")
CacheEnvs == {EnvKeys, EnvProfile, EnvNone}

\* {endpoint, accessKeyId, secretAccessKey}, written in that order
Custom(endpoint, k, sec) ==
    Object(<<<<"endpoint", endpoint>>, <<"accessKeyId", k>>,
             <<"secretAccessKey", sec>>>>)

CustomEndpoint == Custom("e1", Null, Null)
CustomKeys == Custom("e1", "k2", "s2")

\* the properties of CustomKeys written in another order, and with one more
CustomKeysReordered ==
    Object(<<<<"accessKeyId", "k2">>, <<"secretAccessKey", "s2">>,
             <<"endpoint", "e1">>>>)
CustomKeysExtra ==
    Object(<<<<"endpoint", "e1">>, <<"accessKeyId", "k2">>,
             <<"secretAccessKey", "s2">>, <<"region", "auto">>>>)

Args(region, service, cc) ==
    [region |-> region, service |-> service, customCredentials |-> cc]

\* the arguments of the direct getServiceClient calls
DirectArgs ==
    {Args("eu-central-1", "sts", NullCredentials),
     Args("eu-central-1", "s3", NullCredentials),
     Args("eu-central-1", "s3", CustomKeys),
     Args("eu-central-1", "ec2", NullCredentials)}

\* the raw ARNs of the examples
ArnUserAlice ==
    <<"a", "r", "n", ":", "a", "w", "s", ":", "i", "a", "m", ":", ":", "1",
      "2", "3", "4", "5", "6", "7", "8", "9", "0", "1", "2", ":", "u", "s",
      "e", "r", "/", "a", "l", "i", "c", "e">>
ArnAssumedRole ==
    <<"a", "r", "n", ":", "a", "w", "s", ":", "s", "t", "s", ":", ":", "1",
      "2", "3", "4", "5", "6", "7", "8", "9", "0", "1", "2", ":", "a", "s",
      "s", "u", "m", "e", "d", "-", "r", "o", "l", "e", "/", "M", "y", "R",
      "o", "l", "e", "/", "s", "e", "s", "s", "i", "o", "n", "-", "1">>
ArnInstance ==
    <<"a", "r", "n", ":", "a", "w", "s", ":", "e", "c", "2", ":", ":", "1",
      "2", "3", "4", "5", "6", "7", "8", "9", "0", "1", "2", ":", "i", "n",
      "s", "t", "a", "n", "c", "e", "/", "i", "-", "a", "b", "c">>
ArnOnlyRole ==
    <<"a", "r", "n", ":", "a", "w", "s", ":", "s", "t", "s", ":", ":", "1",
      "2", "3", "4", "5", "6", "7", "8", "9", "0", "1", "2", ":", "a", "s",
      "s", "u", "m", "e", "d", "-", "r", "o", "l", "e", "/", "o", "n", "l",
      "y", "r", "o", "l", "e">>
SampleArns == {ArnUserAlice, ArnAssumedRole, ArnInstance, ArnOnlyRole, <<>>}

\* raw ARNs put together from parts, well-formed and not
ArnPrefixes == {<<>>, <<"x">>}
ArnServices == {StrIam, StrSts, <<"e", "c", "2">>, <<>>}
ArnAccounts == {<<"1", "2">>, <<>>, <<"1", "a">>}
ArnTypes == {StrUser, StrAssumedRole, <<"r", "o", "l", "e">>, <<>>}
ArnRests == {<<>>, <<"/", "a">>, <<"/", "a", "/">>, <<"/", "a", "/", "b">>,
             <<"/", "/", "a", "/", "b">>, <<"/", "a", "/", "b", "/", "c">>,
             <<":", "a", "/", "b">>,
             <<"/", "a", "\n", "/", "b">>, <<"/", "a", "\r", "/", "b">>,
             <<"/", "\n", "/", "a", "/", "b">>, <<"/", "a", "/", "b", "\n", "c">>,
             <<"/", "a", "/", "\n", "b">>, <<"/", "a", "\n", "b">>,
             <<"/", "a", LineSeparator, "/", "b">>,
             <<"/", "a", "/", ParagraphSeparator>>}
BuiltArns ==
    {pre \o StrArnAws \o sv \o <<":", ":">> \o ac \o <<":">> \o ty \o rest :
        pre \in ArnPrefixes, sv \in ArnServices, ac \in ArnAccounts,
        ty \in ArnTypes, rest \in ArnRests}

\* what the GetCallerIdentity request may settle with
Identities(arns) ==
    {[kind |-> "throws"], [kind |-> "undefined"],
     [kind |-> "identity", hasArn |-> FALSE, Arn |-> <<>>]}
    \cup {[kind |-> "identity", hasArn |-> TRUE, Arn |-> a] : a \in arns}

\* what a simulateRule call may settle with
RuleOuts(lists) ==
    {[kind |-> "throws"]} \cup {[kind |-> "results", list |-> l] : l \in lists}

(***************************************************************************)
(* Specifications                                                          *)
(***************************************************************************)
NoCall ==
    [args |-> Args(Unset, Unset, NullCredentials), outcome |-> "none",
     key |-> <<>>, hit |-> FALSE, handle |-> 0, hashResolves |-> 0,
     ctorResolves |-> 0, checks |-> 0, built |-> FALSE, steps |-> <<>>]

NoProbe == [phase |-> "off"]

\* the state after module load: an empty cache, no run started
InitProcess(envs) ==
    /\ env \in envs
    /\ clients = <<>>
    /\ constructed = {}
    /\ returned = {}
    /\ last = NoCall
    /\ calls = 0
    /\ pc = [p \in Procs |-> "idle"]
    /\ opts = [p \in Procs |-> NoOptions]
    /\ principal = [p \in Procs |-> NoPrincipal]
    /\ idx = [p \in Procs |-> 0]
    /\ results = [p \in Procs |-> <<>>]
    /\ events = [p \in Procs |-> <<>>]
    /\ err = [p \in Procs |-> Unset]

\* the steps of the runs in procs, their inputs drawn from the given sets
RunSteps(procs, regions, supplieds, arns, lists) ==
    \E p \in procs :
        \/ \E region \in regions, supplied \in supplieds, ctorOk \in BOOLEAN :
              SimStart(p, region, supplied, ctorOk)
        \/ \E resp \in Identities(arns) : IdentityReturn(p, resp)
        \/ \E out \in RuleOuts(lists), throwAt \in 0..MaxResults :
              RuleReturn(p, out, throwAt)

\* The process: concurrent runs of simulatePermissions and direct callers of
\* getServiceClient, interleaved at the await points
Init == InitProcess(CacheEnvs) /\ probe = NoProbe

Next ==
    \/ \E args \in DirectArgs, ctorOk \in BOOLEAN : DirectCall(args, ctorOk)
    \/ RunSteps(Procs, Regions, {TRUE}, {ArnUserAlice},
                ResultLists({ResultAllowed}, 0))

Spec == Init /\ [][Next]_vars

\* One run of simulatePermissions, with every kind of collaborator answer
InitSim == InitProcess({EnvKeys, EnvNone}) /\ probe = NoProbe

NextSim ==
    RunSteps({1}, Regions, BOOLEAN, SampleArns, ResultLists(ResultPool, MaxResults))

SpecSim == InitSim /\ [][NextSim]_vars

\* The same run, with collaborators that answer: a pending GetCallerIdentity
\* request and a pending simulateRule call eventually settle (return or fail)
SpecSimFair ==
    /\ InitSim
    /\ [][NextSim]_vars
    /\ \A p \in {1} :
          /\ WF_vars(\E resp \in Identities(SampleArns) : IdentityReturn(p, resp))
          /\ WF_vars(\E out \in RuleOuts(ResultLists(ResultPool, MaxResults)),
                        throwAt \in 0..MaxResults : RuleReturn(p, out, throwAt))

\* One run of simulatePermissions over the raw ARNs built from parts
InitArn == InitProcess({EnvKeys}) /\ probe = NoProbe

NextArn ==
    RunSteps({1}, {"eu-central-1"}, {FALSE}, BuiltArns \cup SampleArns,
             ResultLists({ResultAllowed}, 0))

SpecArn == InitArn /\ [][NextArn]_vars

\* Direct callers alone, with every form of customCredentials, in every
\* kind of environment
CustomValues ==
    {NullCredentials}
    \cup {Custom("e1", k, sec) :
            k \in {Null, Unset, "k2"}, sec \in {Null, Unset, "s2"}}
    \cup {CustomKeysReordered, CustomKeysExtra}

CustomArgs == {Args(region, "s3", cc) : region \in Regions, cc \in CustomValues}

InitCustom == InitProcess(CacheEnvs \cup {EnvLambda}) /\ probe = NoProbe

NextCustom == \E args \in CustomArgs, ctorOk \in BOOLEAN : DirectCall(args, ctorOk)

SpecCustom == InitCustom /\ [][NextCustom]_vars

(***************************************************************************)
(* Fingerprint derivation on two configurations                            *)
(***************************************************************************)
ProfileValues == {Unset, "p1", "p2"}
KeyValues == {Unset, "k1", "k2"}
SecretValues == {Unset, "s1", "s2"}
CustomKeyValues == {Null, "k1", "k2"}
CustomSecretValues == {Null, "s1", "s2"}
EndpointValues == {"e1", "e2"}
ServiceValues == {"s3", "sts", "iam"}

\* the environments a first configuration is drawn from
HashEnvs ==
    {Env(lambda, profile, rKey, rSecret, aKey, aSecret) :
        lambda \in BOOLEAN, profile \in {Unset, "p1"},
        rKey \in {Unset, "k1"}, rSecret \in {Unset, "s1"},
        aKey \in {Unset, "k1"}, aSecret \in {Unset, "s1"}}

HashCustoms ==
    {NullCredentials}
    \cup {Custom("e1", k, sec) : k \in {Null, "k1"}, sec \in {Null, "s1"}}
    \cup {Object(<<<<"secretAccessKey", "s1">>, <<"endpoint", "e1">>,
                    <<"accessKeyId", "k1">>>>)}

HashConfigs ==
    {[env |-> e, args |-> Args("eu-central-1", "s3", cc)] :
        e \in HashEnvs, cc \in HashCustoms}

\* the single inputs of a fingerprint derivation, and the values of each
HashFields ==
    {"region", "service", "endpoint", "customAccessKeyId",
     "customSecretAccessKey", "REMOTION_AWS_PROFILE",
     "REMOTION_AWS_ACCESS_KEY_ID", "REMOTION_AWS_SECRET_ACCESS_KEY",
     "AWS_ACCESS_KEY_ID", "AWS_SECRET_ACCESS_KEY"}

FieldValues(field) ==
    CASE field = "region" -> Regions
      [] field = "service" -> ServiceValues
      [] field = "endpoint" -> EndpointValues
      [] field = "customAccessKeyId" -> CustomKeyValues
      [] field = "customSecretAccessKey" -> CustomSecretValues
      [] field = "REMOTION_AWS_PROFILE" -> ProfileValues
      [] field \in {"REMOTION_AWS_ACCESS_KEY_ID", "AWS_ACCESS_KEY_ID"} -> KeyValues
      [] OTHER -> SecretValues

CustomFields == {"endpoint", "customAccessKeyId", "customSecretAccessKey"}

FieldOf(cfg, field) ==
    CASE field = "region" -> cfg.args.region
      [] field = "service" -> cfg.args.service
      [] field = "endpoint" -> Prop(cfg.args.customCredentials, "endpoint")
      [] field = "customAccessKeyId" ->
            Prop(cfg.args.customCredentials, "accessKeyId")
      [] field = "customSecretAccessKey" ->
            Prop(cfg.args.customCredentials, "secretAccessKey")
      [] field = "REMOTION_AWS_PROFILE" -> cfg.env.REMOTION_AWS_PROFILE
      [] field = "REMOTION_AWS_ACCESS_KEY_ID" -> cfg.env.REMOTION_AWS_ACCESS_KEY_ID
      [] field = "REMOTION_AWS_SECRET_ACCESS_KEY" ->
            cfg.env.REMOTION_AWS_SECRET_ACCESS_KEY
      [] field = "AWS_ACCESS_KEY_ID" -> cfg.env.AWS_ACCESS_KEY_ID
      [] OTHER -> cfg.env.AWS_SECRET_ACCESS_KEY

\* the object cc with the value of one of its properties replaced, every
\* property staying where it is
SetProp(cc, name, v) ==
    Object([k \in 1..Len(cc.props) |->
              IF cc.props[k][1] = name THEN <<name, v>> ELSE cc.props[k]])

WithField(cfg, field, v) ==
    CASE field = "region" -> [cfg EXCEPT !.args.region = v]
      [] field = "service" -> [cfg EXCEPT !.args.service = v]
      [] field = "endpoint" ->
            [cfg EXCEPT !.args.customCredentials = SetProp(@, "endpoint", v)]
      [] field = "customAccessKeyId" ->
            [cfg EXCEPT !.args.customCredentials = SetProp(@, "accessKeyId", v)]
      [] field = "customSecretAccessKey" ->
            [cfg EXCEPT !.args.customCredentials =
                            SetProp(@, "secretAccessKey", v)]
      [] field = "REMOTION_AWS_PROFILE" ->
            [cfg EXCEPT !.env.REMOTION_AWS_PROFILE = v]
      [] field = "REMOTION_AWS_ACCESS_KEY_ID" ->
            [cfg EXCEPT !.env.REMOTION_AWS_ACCESS_KEY_ID = v]
      [] field = "REMOTION_AWS_SECRET_ACCESS_KEY" ->
            [cfg EXCEPT !.env.REMOTION_AWS_SECRET_ACCESS_KEY = v]
      [] field = "AWS_ACCESS_KEY_ID" -> [cfg EXCEPT !.env.AWS_ACCESS_KEY_ID = v]
      [] OTHER -> [cfg EXCEPT !.env.AWS_SECRET_ACCESS_KEY = v]

\* the second configuration is the first with one input changed
ChangeField(field, v) ==
    /\ probe.phase = "input"
    /\ field \in CustomFields => probe.a.args.customCredentials # NullCredentials
    /\ v # FieldOf(probe.a, field)
    /\ probe' = [probe EXCEPT !.phase = "changed", !.field = field,
                              !.b = WithField(probe.a, field, v)]
    /\ UNCHANGED <<env, cacheVars, calls, runVars>>

\* the second configuration is the first in another environment
ChangeEnv(e) ==
    /\ probe.phase = "input"
    /\ probe' = [probe EXCEPT !.phase = "changed", !.field = "env",
                              !.b = [probe.a EXCEPT !.env = e]]
    /\ UNCHANGED <<env, cacheVars, calls, runVars>>

\* getCredentialsHash runs on both configurations
Derive ==
    /\ probe.phase = "changed"
    /\ probe' = [probe EXCEPT
                    !.phase = "derived",
                    !.ha = getCredentialsHash(probe.a.env, probe.a.args),
                    !.hb = getCredentialsHash(probe.b.env, probe.b.args)]
    /\ UNCHANGED <<env, cacheVars, calls, runVars>>

\* getCredentials runs in the environments of both configurations
Resolve ==
    /\ probe.phase = "derived"
    /\ probe' = [probe EXCEPT !.phase = "resolved",
                              !.ca = getCredentials(probe.a.env),
                              !.cb = getCredentials(probe.b.env)]
    /\ UNCHANGED <<env, cacheVars, calls, runVars>>

InitHash ==
    /\ InitProcess({EnvKeys})
    /\ \E cfg \in HashConfigs :
          probe = [phase |-> "input", a |-> cfg, b |-> cfg, field |-> "none",
                   ha |-> <<>>, hb |-> <<>>,
                   ca |-> CredUndefined, cb |-> CredUndefined]

NextHash ==
    \/ \E field \in HashFields : \E v \in FieldValues(field) : ChangeField(field, v)
    \/ \E e \in HashEnvs : ChangeEnv(e)
    \/ Derive
    \/ Resolve

SpecHash == InitHash /\ [][NextHash]_vars

(***************************************************************************)
(* Claims about the Service Client Cache, checked under Spec               *)
(***************************************************************************)
\* What holds of C1: any two successful getServiceClient calls with the same
\* region, the same service and customCredentials that serialize to the same
\* text (null, or the same properties written in the same order) returned the
\* same handle instance, and every handle a miss constructed is still the
\* cache's entry for its fingerprint (never evicted, invalidated or replaced).
C1_SameHandle ==
    /\ \A x \in returned : \A y \in returned : x[1] = y[1] => x[2] = y[2]
    /\ \A b \in constructed :
          /\ b[1] \in DOMAIN clients
          /\ clients[b[1]].id = b[2]

\* a call hit the cache and returned the handle an earlier call with the same
\* arguments had constructed, with another entry in the cache besides
C1_Witness ==
    /\ last.hit
    /\ last.outcome = "returned"
    /\ <<last.key, last.handle>> \in constructed
    /\ Cardinality(DOMAIN clients) >= 2

\* C2: under every interleaving of the runs of simulatePermissions and the
\* direct callers, no two client constructions happened for one fingerprint.
C2_BuiltOncePerKey ==
    \A x \in constructed : \A y \in constructed : x[1] = y[1] => x[2] = y[2]

\* both runs are suspended at their identity fetch, having asked for the STS
\* client of the same region, a direct caller has called in between, and one
\* client was constructed
C2_Witness ==
    /\ pc[1] = "awaitIdentity"
    /\ pc[2] = "awaitIdentity"
    /\ opts[1].region = opts[2].region
    /\ calls >= 1
    /\ last.hit
    /\ Cardinality(constructed) = 1

\* C3 as stated: a getServiceClient call that hits the cache (so its key had
\* its credentials resolved by the call that missed) does not run
\* getCredentials again.
C3_Original ==
    last.hit => last.hashResolves + last.ctorResolves = 0

\* C3 amended: resolution is not once per key. Fingerprint derivation runs
\* getCredentials once on every getServiceClient call, hit or miss, unless
\* REMOTION_AWS_PROFILE is set, and a miss that constructs a client without
\* customCredentials runs it once more. A call that hits the cache never
\* resolves credentials for a construction, and resolves none at all when
\* the profile variable is set.
C3_ResolutionsOnHit ==
    /\ (last.hit \/ last.built) =>
          /\ last.hashResolves = 0 <=> Truthy(env.REMOTION_AWS_PROFILE)
          /\ last.hashResolves = 1 <=> ~Truthy(env.REMOTION_AWS_PROFILE)
    /\ last.hit => last.ctorResolves = 0
    /\ last.built =>
          /\ last.ctorResolves = 1
             <=> last.args.customCredentials = NullCredentials
          /\ last.ctorResolves = 0
             <=> last.args.customCredentials # NullCredentials

\* a call hit the cache and ran getCredentials for its fingerprint
C3_Witness == last.hit /\ last.hashResolves = 1

(***************************************************************************)
(* Claims about fingerprint derivation, checked under SpecHash             *)
(***************************************************************************)
\* the credential source the resolver selects in an environment: the managed
\* execution environment or not, and what getCredentials returns
SelectedSource(e) == <<isInsideLambda(e), getCredentials(e)>>

\* C4 as stated: two derivations with the same region, service and
\* customCredentials, in environments where the resolver selects the same
\* credential source with the same values, give the same fingerprint.
C4_Original ==
    (/\ probe.phase = "derived"
     /\ probe.a.args = probe.b.args
     /\ SelectedSource(probe.a.env) = SelectedSource(probe.b.env))
    => probe.ha = probe.hb

EnvKeyFields ==
    {"REMOTION_AWS_ACCESS_KEY_ID", "REMOTION_AWS_SECRET_ACCESS_KEY",
     "AWS_ACCESS_KEY_ID", "AWS_SECRET_ACCESS_KEY"}

\* the changed input is an access key or secret of a complete explicit key
\* pair of the environment, changed from one value to another
ExplicitKeyChange ==
    /\ probe.field \in EnvKeyFields
    /\ Truthy(FieldOf(probe.a, probe.field))
    /\ Truthy(FieldOf(probe.b, probe.field))
    /\ \/ /\ probe.field \in {"REMOTION_AWS_ACCESS_KEY_ID",
                              "REMOTION_AWS_SECRET_ACCESS_KEY"}
          /\ Truthy(probe.a.env.REMOTION_AWS_ACCESS_KEY_ID)
          /\ Truthy(probe.a.env.REMOTION_AWS_SECRET_ACCESS_KEY)
       \/ /\ probe.field \in {"AWS_ACCESS_KEY_ID", "AWS_SECRET_ACCESS_KEY"}
          /\ Truthy(probe.a.env.AWS_ACCESS_KEY_ID)
          /\ Truthy(probe.a.env.AWS_SECRET_ACCESS_KEY)

\* C5 as stated: changing any single one of region, service, profile name,
\* customCredentials.endpoint or an explicit access key or secret changes
\* the fingerprint, in every credential environment.
C5_Original ==
    (/\ probe.phase = "derived"
     /\ probe.field \in HashFields
     /\ probe.field \in EnvKeyFields => ExplicitKeyChange)
    => probe.ha # probe.hb

\* C5 amended: changing region, service, profile name, the endpoint or a key
\* or secret of customCredentials changes the fingerprint in every
\* environment; changing an access key or secret of the environment changes
\* it exactly when no profile variable is set and the change alters what
\* getCredentials returns.
C5_Sensitivity ==
    (probe.phase = "derived" /\ probe.field \in HashFields)
    => IF probe.field \in EnvKeyFields
       THEN probe.ha # probe.hb
            <=> (/\ ~Truthy(probe.a.env.REMOTION_AWS_PROFILE)
                 /\ getCredentials(probe.a.env) # getCredentials(probe.b.env))
       ELSE probe.ha # probe.hb

\* the tool-specific access key was changed and the fingerprint changed
C5_Witness ==
    /\ probe.phase = "derived"
    /\ probe.field = "REMOTION_AWS_ACCESS_KEY_ID"
    /\ probe.ha # probe.hb

(***************************************************************************)
(* Claims about identity normalization, checked under SpecArn              *)
(***************************************************************************)
StrIamPrefix == StrArnAws \o StrIam \o <<":", ":">>
StrStsPrefix == StrArnAws \o StrSts \o <<":", ":">>
StrColonUserSlash == <<":">> \o StrUser \o <<"/">>
StrColonAssumedRoleSlash == <<":">> \o StrAssumedRole \o <<"/">>

AllDigits(s) == Len(s) >= 1 /\ \A i \in 1..Len(s) : s[i] \in Digits
NoSlash(s) == \A i \in 1..Len(s) : s[i] # "/"

\* s is arn:aws:iam::<account>:user/<name>
UserShape(s) ==
    \E n \in 1..Len(s) :
        /\ HasAt(s, 1, StrIamPrefix)
        /\ Len(StrIamPrefix) + n <= Len(s)
        /\ AllDigits(SubSeq(s, Len(StrIamPrefix) + 1, Len(StrIamPrefix) + n))
        /\ HasAt(s, Len(StrIamPrefix) + n + 1, StrColonUserSlash)

\* s is arn:aws:sts::<account>:assumed-role/<roleName>/<sessionName> with
\* the given account and role name
AssumedRoleParts(s, account, role) ==
    /\ AllDigits(account)
    /\ Len(role) >= 1
    /\ NoSlash(role)
    /\ HasAt(s, 1, StrStsPrefix \o account \o StrColonAssumedRoleSlash
                   \o role \o <<"/">>)

AssumedRoleShape(s) ==
    \E n \in 1..Len(s), m \in 1..Len(s) :
        /\ Len(StrStsPrefix) + n + Len(StrColonAssumedRoleSlash) + m <= Len(s)
        /\ AssumedRoleParts(
              s,
              SubSeq(s, Len(StrStsPrefix) + 1, Len(StrStsPrefix) + n),
              SubSeq(s, Len(StrStsPrefix) + n + Len(StrColonAssumedRoleSlash) + 1,
                     Len(StrStsPrefix) + n + Len(StrColonAssumedRoleSlash) + m))

\* the simulateRule calls of run p
RuleCalls(p) == SelectSeq(events[p], LAMBDA e : e.ev = "simulateRule")

\* run p went on to simulate with principal ARN a
SimulatesAs(p, a) ==
    /\ principal[p].arn = a
    /\ pc[p] \in {"awaitRule", "done"}
       \/ (pc[p] = "failed" /\ err[p] = "SimulationCallFailure")
    /\ Len(RuleCalls(p)) >= 1
    /\ \A k \in 1..Len(RuleCalls(p)) : RuleCalls(p)[k].arn = a

HasLineTerminator(s) == \E i \in 1..Len(s) : s[i] \in LineTerminators

\* run p was rejected with error e before any simulateRule call
RejectedWith(p, e) ==
    /\ pc[p] = "failed"
    /\ err[p] = e
    /\ RuleCalls(p) = <<>>

\* C6 amended: a fetched raw ARN of shape arn:aws:iam::<account>:user/<name>
\* is the principal ARN of the simulation unchanged; one of shape
\* arn:aws:sts::<account>:assumed-role/<roleName>/<sessionName> is simulated
\* as arn:aws:iam::<account>:role/<roleName> when the role name holds no line
\* terminator, and is rejected with the assumed-role error when it holds one.
C6_Normalization ==
    \A p \in Procs :
        LET raw == principal[p].raw
        IN  /\ UserShape(raw) => SimulatesAs(p, raw)
            /\ \A n \in 1..Len(raw), m \in 1..Len(raw) :
                  LET from == Len(StrStsPrefix) + n + Len(StrColonAssumedRoleSlash)
                  IN  from + m <= Len(raw) =>
                      LET account == SubSeq(raw, Len(StrStsPrefix) + 1,
                                            Len(StrStsPrefix) + n)
                          role == SubSeq(raw, from + 1, from + m)
                      IN  AssumedRoleParts(raw, account, role)
                          => IF HasLineTerminator(role)
                             THEN RejectedWith(p, ErrUnsupportedAssumedRole)
                             ELSE SimulatesAs(p, StrIamPrefix \o account
                                                 \o <<":">> \o StrRoleSlash
                                                 \o role)

\* C6 as stated: a fetched raw ARN of shape arn:aws:iam::<account>:user/<name>
\* is the principal ARN of the simulation unchanged, and every one of shape
\* arn:aws:sts::<account>:assumed-role/<roleName>/<sessionName> is simulated
\* as arn:aws:iam::<account>:role/<roleName>.
C6_Original ==
    \A p \in Procs :
        LET raw == principal[p].raw
        IN  /\ UserShape(raw) => SimulatesAs(p, raw)
            /\ \A n \in 1..Len(raw), m \in 1..Len(raw) :
                  LET from == Len(StrStsPrefix) + n + Len(StrColonAssumedRoleSlash)
                  IN  from + m <= Len(raw) =>
                      LET account == SubSeq(raw, Len(StrStsPrefix) + 1,
                                            Len(StrStsPrefix) + n)
                          role == SubSeq(raw, from + 1, from + m)
                      IN  AssumedRoleParts(raw, account, role)
                          => SimulatesAs(p, StrIamPrefix \o account \o <<":">>
                                            \o StrRoleSlash \o role)

\* the run fetched arn:aws:sts::123456789012:assumed-role/MyRole/session-1
\* and finished its simulation
C6_Witness ==
    /\ principal[1].raw = ArnAssumedRole
    /\ AssumedRoleShape(ArnAssumedRole)
    /\ pc[1] = "done"

\* the raw ARN is an sts assumed-role ARN (whatever follows the resource type)
StsAssumedRoleArn(s) ==
    \E n \in 1..Len(s) :
        /\ HasAt(s, 1, StrStsPrefix)
        /\ Len(StrStsPrefix) + n <= Len(s)
        /\ AllDigits(SubSeq(s, Len(StrStsPrefix) + 1, Len(StrStsPrefix) + n))
        /\ HasAt(s, Len(StrStsPrefix) + n + 1, <<":">> \o StrAssumedRole)
        /\ LET after == Len(StrStsPrefix) + n + 1 + Len(StrAssumedRole) + 1
           IN  after > Len(s) \/ s[after] = "/"

\* C7 as stated: a fetched raw ARN that is not exactly one of the two
\* recognized shapes never reaches the simulation step; it fails with the
\* assumed-role error exactly when it is an sts assumed-role ARN whose
\* remainder is not /<roleName>/<sessionName>, with the generic error
\* otherwise.
C7_Original ==
    \A p \in Procs :
        LET raw == principal[p].raw
        IN  (raw # <<>> /\ ~UserShape(raw) /\ ~AssumedRoleShape(raw))
            => /\ pc[p] = "failed"
               /\ RuleCalls(p) = <<>>
               /\ err[p] = IF StsAssumedRoleArn(raw)
                           THEN ErrUnsupportedAssumedRole
                           ELSE ErrUnsupportedArn

(***************************************************************************)
(* Claims about the simulation loop, checked under SpecSim                 *)
(***************************************************************************)
\* the result lists simulateRule returned to run p, in order
RuleReturns(p) == SelectSeq(events[p], LAMBDA e : e.ev = "ruleReturned")

\* the results onSimulation was invoked with in run p, in order
CallbackSeq(p) ==
    LET cbs == SelectSeq(events[p], LAMBDA e : e.ev = "onSimulation")
    IN  [k \in 1..Len(cbs) |-> cbs[k].res]

\* the concatenation of the lists of a sequence of ruleReturned events
RECURSIVE ConcatLists(_)
ConcatLists(rs) ==
    IF rs = <<>> THEN <<>> ELSE Head(rs).list \o ConcatLists(Tail(rs))

\* C8: when a run has returned, simulateRule returned once for each required
\* permission, in table order, and the results list is the concatenation of
\* the returned lists in that order.
C8_ResultsInOrder ==
    \A p \in Procs :
        pc[p] = "done" =>
            /\ Len(RuleReturns(p)) = Len(RequiredPermissions)
            /\ \A k \in 1..Len(RuleReturns(p)) : RuleReturns(p)[k].perm = k
            /\ results[p] = ConcatLists(RuleReturns(p))

\* the run returned after the first permission gave two different results
\* and the second one result
C8_Witness ==
    /\ pc[1] = "done"
    /\ RuleReturns(1)[1].list = <<ResultAllowed, ResultDenied>>
    /\ Len(RuleReturns(1)[2].list) = 1
    /\ Len(results[1]) >= 3

\* C9: with onSimulation supplied, the callback was invoked once per result
\* pushed, in the order of the results list; no invocation for a permission
\* comes after the simulateRule call of a later permission, and none after
\* the return.
C9_CallbackOrder ==
    \A p \in Procs :
        opts[p].onSimulation =>
            /\ CallbackSeq(p) = results[p]
            /\ \A j \in 1..Len(events[p]) : \A k \in 1..Len(events[p]) :
                  (/\ events[p][j].ev = "onSimulation"
                   /\ \/ events[p][k].ev = "return"
                      \/ /\ events[p][k].ev = "simulateRule"
                         /\ events[p][k].perm > events[p][j].perm)
                  => j < k
            /\ \A k \in 1..Len(events[p]) :
                  events[p][k].ev = "ruleReturned" =>
                      \/ pc[p] = "failed" /\ err[p] = "CallbackError"
                      \/ \A n \in 1..Len(events[p][k].list) :
                            /\ k + n <= Len(events[p])
                            /\ events[p][k + n].ev = "onSimulation"
                            /\ events[p][k + n].res = events[p][k].list[n]

\* a run with a callback returned three results, two of them different and
\* from one permission
C9_Witness ==
    /\ pc[1] = "done"
    /\ opts[1].onSimulation
    /\ Len(CallbackSeq(1)) >= 3
    /\ RuleReturns(1)[1].list = <<ResultDenied, ResultAllowed>>

\* C10: once a simulateRule call has failed, the run is rejected with that
\* failure and no simulateRule call follows it.
C10_AbortOnFailure ==
    \A p \in Procs : \A j \in 1..Len(events[p]) :
        events[p][j].ev = "ruleFailed" =>
            /\ pc[p] = "failed"
            /\ err[p] = "SimulationCallFailure"
            /\ \A k \in 1..Len(events[p]) :
                  events[p][k].ev = "simulateRule" => k < j

\* the simulateRule call of a permission that is not the last one failed
C10_Witness ==
    \E j \in 1..Len(events[1]) :
        /\ events[1][j].ev = "ruleFailed"
        /\ events[1][j].perm < Len(RequiredPermissions)

\* the run made a return statement: the only way results reach the caller
\* through the return value
Returned(p) == \E k \in 1..Len(events[p]) : events[p][k].ev = "return"

\* C11 as stated: a run that failed has delivered no SimulationResult to the
\* caller, neither through a return value nor through onSimulation.
C11_Original ==
    \A p \in Procs :
        pc[p] = "failed" => ~Returned(p) /\ CallbackSeq(p) = <<>>

\* C11 amended: a run that failed returns nothing, but with onSimulation
\* supplied the callback has already received every result pushed before the
\* failure: all results of the permissions simulated before a failed
\* simulateRule call. Only a failure before the loop (client, identity
\* fetch, missing ARN, normalization) leaves the callback uninvoked.
C11_FailedRunDelivery ==
    \A p \in Procs :
        pc[p] = "failed" =>
            /\ ~Returned(p)
            /\ err[p] # Unset
            /\ CallbackSeq(p) = IF opts[p].onSimulation THEN results[p] ELSE <<>>
            /\ err[p] = "SimulationCallFailure" =>
                  results[p] = ConcatLists(RuleReturns(p))
            /\ err[p] \notin {"SimulationCallFailure", "CallbackError"} =>
                  /\ results[p] = <<>>
                  /\ RuleCalls(p) = <<>>

\* the simulateRule call of the second permission failed after the callback
\* had received the results of the first
C11_Witness ==
    /\ pc[1] = "failed"
    /\ err[1] = "SimulationCallFailure"
    /\ opts[1].onSimulation
    /\ Len(CallbackSeq(1)) >= 1

(***************************************************************************)
(* Claims about failures and construction in the cache, checked under Spec *)
(***************************************************************************)
CallFailures == {"CredentialsMissing", "ConstructFailed"}

\* the step is a getServiceClient call: a direct one, or the one a run of
\* simulatePermissions makes when it starts
IsCallStep ==
    \/ calls' = calls + 1
    \/ \E p \in Procs : pc[p] = "idle" /\ pc'[p] # "idle"

\* C12: a getServiceClient call that fails at the credential check or at the
\* construction leaves the cache as it was, with no entry for its
\* fingerprint; and a call that follows a failed call with the same
\* arguments is a miss again, which runs the credential check again and,
\* when it returns, has constructed the client.
C12_FailureNotMemoized ==
    [][IsCallStep =>
        /\ last'.outcome \in CallFailures =>
              /\ clients' = clients
              /\ last'.key \notin DOMAIN clients'
              /\ last'.checks = 1
        /\ (last.outcome \in CallFailures /\ last'.args = last.args) =>
              /\ ~last'.hit
              /\ last'.checks = 1
              /\ last'.outcome = "returned" => last'.built]_vars

\* a run failed because the STS client's construction failed, and the latest
\* call, for the same STS client, ran the credential check and constructed it
C12_Witness ==
    /\ pc[1] = "failed"
    /\ err[1] = "ConstructFailed"
    /\ last.args = StsArgs(opts[1].region)
    /\ last.outcome = "returned"
    /\ last.built
    /\ last.checks = 1

\* the positions of a step in the latest call
StepsAt(sum, step) == {k \in 1..Len(sum.steps) : sum.steps[k] = step}

\* C13: a getServiceClient call that misses the cache runs checkCredentials
\* exactly once, before the client is constructed and before it is stored; a
\* call that hits runs no checkCredentials and no construction, and returns
\* the handle stored under its fingerprint with the cache unchanged.
C13_CheckOncePerMiss ==
    [][IsCallStep =>
        /\ (last'.outcome # NoClient /\ ~last'.hit) =>
              /\ last'.checks = 1
              /\ Cardinality(StepsAt(last', "checkCredentials")) = 1
              /\ \A k \in StepsAt(last', "checkCredentials") :
                    \A j \in StepsAt(last', "new Client")
                             \cup StepsAt(last', "store") : k < j
              /\ last'.built <=> StepsAt(last', "store") # {}
        /\ last'.hit =>
              /\ last'.checks = 0
              /\ StepsAt(last', "checkCredentials") = {}
              /\ StepsAt(last', "new Client") = {}
              /\ clients' = clients
              /\ last'.key \in DOMAIN clients
              /\ last'.handle = clients[last'.key].id
              /\ last'.outcome = "returned"]_vars

\* a call missed, ran the check and constructed; the latest call, a direct
\* one, hit that entry
C13_Witness ==
    /\ last.hit
    /\ last.checks = 0
    /\ <<last.key, last.handle>> \in constructed
    /\ calls >= 1

(***************************************************************************)
(* Claims about the Credential Resolver, checked under SpecHash            *)
(***************************************************************************)
ToolPairSet(e) ==
    Truthy(e.REMOTION_AWS_ACCESS_KEY_ID) /\ Truthy(e.REMOTION_AWS_SECRET_ACCESS_KEY)
GenericPairSet(e) ==
    Truthy(e.AWS_ACCESS_KEY_ID) /\ Truthy(e.AWS_SECRET_ACCESS_KEY)
KeyPair(k, sec) == [type |-> "keys", accessKeyId |-> k, secretAccessKey |-> sec]

\* getCredentials returned cred in environment e by the priority order
\* Ambient > NamedProfile > tool-specific pair > generic pair > None
ByPriority(e, cred) ==
    /\ e.insideLambda => cred = CredUndefined
    /\ (~e.insideLambda /\ Truthy(e.REMOTION_AWS_PROFILE)) =>
          cred = [type |-> "fromIni", profile |-> e.REMOTION_AWS_PROFILE]
    /\ (~e.insideLambda /\ ~Truthy(e.REMOTION_AWS_PROFILE) /\ ToolPairSet(e)) =>
          cred = KeyPair(e.REMOTION_AWS_ACCESS_KEY_ID,
                         e.REMOTION_AWS_SECRET_ACCESS_KEY)
    /\ (/\ ~e.insideLambda
        /\ ~Truthy(e.REMOTION_AWS_PROFILE)
        /\ ~ToolPairSet(e)
        /\ GenericPairSet(e)) =>
          cred = KeyPair(e.AWS_ACCESS_KEY_ID, e.AWS_SECRET_ACCESS_KEY)
    /\ (/\ ~e.insideLambda
        /\ ~Truthy(e.REMOTION_AWS_PROFILE)
        /\ ~ToolPairSet(e)
        /\ ~GenericPairSet(e)) => cred = CredUndefined
    /\ cred.type = "keys" =>
          \/ /\ ToolPairSet(e)
             /\ cred = KeyPair(e.REMOTION_AWS_ACCESS_KEY_ID,
                               e.REMOTION_AWS_SECRET_ACCESS_KEY)
          \/ /\ GenericPairSet(e)
             /\ cred = KeyPair(e.AWS_ACCESS_KEY_ID, e.AWS_SECRET_ACCESS_KEY)

\* C14: in every combination of set and unset variables getCredentials gives
\* the one source the priority order Ambient > NamedProfile > tool-specific
\* key pair > generic key pair > None selects, and a key pair only when both
\* its access key id and its secret are set.
C14_PriorityOrder ==
    probe.phase = "resolved" =>
        /\ ByPriority(probe.a.env, probe.ca)
        /\ ByPriority(probe.b.env, probe.cb)

\* in the second environment the tool-specific access key is set without its
\* secret and no profile is set: resolution fell through to the generic pair;
\* in the first, inside the managed execution environment, a set profile
\* was passed over
C14_Witness ==
    /\ probe.phase = "resolved"
    /\ probe.a.env.insideLambda
    /\ Truthy(probe.a.env.REMOTION_AWS_PROFILE)
    /\ probe.ca = CredUndefined
    /\ ~probe.b.env.insideLambda
    /\ Truthy(probe.b.env.REMOTION_AWS_ACCESS_KEY_ID)
    /\ ~Truthy(probe.b.env.REMOTION_AWS_SECRET_ACCESS_KEY)
    /\ probe.cb = KeyPair(probe.b.env.AWS_ACCESS_KEY_ID,
                          probe.b.env.AWS_SECRET_ACCESS_KEY)

(***************************************************************************)
(* Claims about construction with customCredentials, checked under         *)
(* SpecCustom                                                              *)
(***************************************************************************)
\* C15: a handle constructed with customCredentials present has the endpoint
\* of customCredentials, region 'us-east-1' whatever region was requested,
\* the key pair of customCredentials when both its fields are present and no
\* credentials otherwise; getCredentials is not run for the construction.
C15_CustomConstruction ==
    (last.built /\ last.args.customCredentials # NullCredentials) =>
        LET cc == last.args.customCredentials
            h == clients[last.key]
        IN  /\ h.id = last.handle
            /\ h.endpoint = Prop(cc, "endpoint")
            /\ h.region = "us-east-1"
            /\ h.credentials =
                  IF Truthy(Prop(cc, "accessKeyId"))
                     /\ Truthy(Prop(cc, "secretAccessKey"))
                  THEN KeyPair(Prop(cc, "accessKeyId"),
                               Prop(cc, "secretAccessKey"))
                  ELSE CredUndefined
            /\ last.ctorResolves = 0

\* in an environment with a key pair of its own, a client was constructed for
\* eu-central-1 with customCredentials that hold an access key but no secret
C15_Witness ==
    /\ last.built
    /\ env = EnvKeys
    /\ last.args.region = "eu-central-1"
    /\ last.args.customCredentials # NullCredentials
    /\ Prop(last.args.customCredentials, "accessKeyId") = "k2"
    /\ Prop(last.args.customCredentials, "secretAccessKey") = Null
    /\ clients[last.key].credentials = CredUndefined

(***************************************************************************)
(* Claims about the steps of a run, checked under SpecSim                  *)
(***************************************************************************)
\* the positions in the events of run p of the events of one kind
EventsAt(p, ev) == {k \in 1..Len(events[p]) : events[p][k].ev = ev}

PreLoopErrors == {ErrNoIdentity, ErrUnsupportedArn, ErrUnsupportedAssumedRole}

\* the steps a run may take from one suspension point to the next
LinearSteps ==
    {<<"idle", "awaitIdentity">>, <<"idle", "failed">>,
     <<"awaitIdentity", "awaitRule">>, <<"awaitIdentity", "done">>,
     <<"awaitIdentity", "failed">>,
     <<"awaitRule", "awaitRule">>, <<"awaitRule", "done">>,
     <<"awaitRule", "failed">>}

\* C16 (state part): every simulateRule call and every onSimulation
\* invocation of a run comes after the one identity response, which had a
\* non-empty ARN that was normalized to the principal of the run; a response
\* without ARN fails the run with the NoIdentity error, and a run failed with
\* that error or a normalization error has called simulateRule and
\* onSimulation never.
C16_StateOrder ==
    \A p \in Procs :
        /\ Cardinality(EventsAt(p, "identity")) <= 1
        /\ \A k \in EventsAt(p, "simulateRule") \cup EventsAt(p, "onSimulation") :
              \E j \in EventsAt(p, "identity") :
                  /\ j < k
                  /\ events[p][j].resp.kind = "identity"
                  /\ events[p][j].resp.hasArn
                  /\ events[p][j].resp.Arn # <<>>
                  /\ events[p][j].resp.Arn = principal[p].raw
                  /\ principal[p].arn # <<>>
                  /\ events[p][k].ev = "simulateRule" =>
                        events[p][k].arn = principal[p].arn
        /\ \A j \in EventsAt(p, "identity") :
              (\/ events[p][j].resp.kind = "undefined"
               \/ /\ events[p][j].resp.kind = "identity"
                  /\ ~events[p][j].resp.hasArn \/ events[p][j].resp.Arn = <<>>)
              => pc[p] = "failed" /\ err[p] = ErrNoIdentity
        /\ err[p] \in PreLoopErrors =>
              /\ pc[p] = "failed"
              /\ EventsAt(p, "simulateRule") = {}
              /\ EventsAt(p, "onSimulation") = {}
              /\ results[p] = <<>>

\* C16: a run moves only forward through FETCH_IDENTITY, NORMALIZE,
\* SIMULATE_EACH and DONE (or fails), and in every state it reaches the
\* state part above holds.
C16_LinearOrder ==
    /\ [](C16_StateOrder)
    /\ [][\A p \in Procs :
            pc'[p] # pc[p] \/ events'[p] # events[p]
            => <<pc[p], pc'[p]>> \in LinearSteps]_vars

\* one run failed on an identity without ARN, having called nothing
C16_Witness ==
    /\ pc[1] = "failed"
    /\ err[1] = ErrNoIdentity
    /\ \E j \in EventsAt(1, "identity") :
          events[1][j].resp.kind = "identity" /\ ~events[1][j].resp.hasArn
    /\ EventsAt(1, "simulateRule") = {}

\* the answers (result list or failure) the simulateRule calls of run p got
Settled(p) == EventsAt(p, "ruleReturned") \cup EventsAt(p, "ruleFailed")

\* C17: the simulateRule calls of a run are made for the required
\* permissions 1, 2, ... in table order, none twice, each with the actions
\* and resource of its entry, retries = 2, the requested region and the
\* normalized principal ARN; a call is made only after the call before it
\* has returned and its results are in the results list, so at most one call
\* is outstanding; a run that returned has made exactly one call per entry.
C17_OneCallPerPermission ==
    \A p \in Procs :
        LET rc == RuleCalls(p)
        IN  /\ Len(rc) <= Len(RequiredPermissions)
            /\ \A k \in 1..Len(rc) :
                  /\ rc[k].perm = k
                  /\ rc[k].actionNames = RequiredPermissions[k].actions
                  /\ rc[k].resource = RequiredPermissions[k].resource
                  /\ rc[k].retries = Retries
                  /\ rc[k].region = opts[p].region
                  /\ rc[k].arn = principal[p].arn
            /\ \A j \in EventsAt(p, "simulateRule") :
                  events[p][j].perm > 1 =>
                      \E r \in EventsAt(p, "ruleReturned") :
                          /\ r < j
                          /\ events[p][r].perm = events[p][j].perm - 1
            /\ Len(rc) - Cardinality(Settled(p)) =
                  IF pc[p] = "awaitRule" THEN 1 ELSE 0
            /\ pc[p] \in {"awaitRule", "done"} =>
                  /\ Len(RuleReturns(p)) = idx[p]
                  /\ results[p] = ConcatLists(RuleReturns(p))
            /\ pc[p] = "done" => Len(rc) = Len(RequiredPermissions)

\* a run for eu-central-1 fetched the assumed-role ARN and returned after
\* one call per required permission, with results from each
C17_Witness ==
    /\ pc[1] = "done"
    /\ opts[1].region = "eu-central-1"
    /\ principal[1].raw = ArnAssumedRole
    /\ Len(RuleCalls(1)) = NumPermissions
    /\ \A k \in 1..Len(RuleReturns(1)) : Len(RuleReturns(1)[k].list) >= 1

(***************************************************************************)
(* Claims about unknown services and cache soundness, checked under Spec   *)
(***************************************************************************)
ServiceKinds == {"s3", "cloudwatch", "iam", "sts", "lambda", "servicequotas"}

\* C18: a getServiceClient call with a service outside the closed set fails
\* with the TypeError having done nothing else: no fingerprint derived, no
\* credentials resolved, checkCredentials not invoked, nothing constructed,
\* the cache unchanged; a call with a service of the set never fails so.
C18_UnknownService ==
    [][IsCallStep =>
        /\ last'.args.service \notin ServiceKinds =>
              /\ last'.outcome = NoClient
              /\ last'.steps = <<"Client">>
              /\ last'.key = <<>>
              /\ last'.hashResolves = 0
              /\ last'.ctorResolves = 0
              /\ last'.checks = 0
              /\ ~last'.built
              /\ ~last'.hit
              /\ clients' = clients
              /\ constructed' = constructed
              /\ returned' = returned
        /\ last'.args.service \in ServiceKinds => last'.outcome # NoClient]_vars

\* with a client in the cache, the latest call asked for an unknown service
\* and failed with the TypeError
C18_Witness ==
    /\ last.outcome = NoClient
    /\ last.args.service \notin ServiceKinds
    /\ Cardinality(DOMAIN clients) >= 1

\* what a fresh construction for a configuration would hand to which
\* constructor
Construction(cfg) == <<ClientFor(cfg.args.service), ClientConfig(cfg.env, cfg.args)>>

\* C19 as stated: two configurations that would construct differently never
\* share a fingerprint, so that a handle found under a fingerprint was
\* constructed with the parameters a fresh construction would use. Checked
\* under SpecHash.
C19_Original ==
    (probe.phase = "derived" /\ probe.ha = probe.hb)
    => Construction(probe.a) = Construction(probe.b)

(***************************************************************************)
(* Termination of a run, checked under SpecSimFair                         *)
(***************************************************************************)
\* C20: with collaborators that eventually answer, a run that was started
\* eventually returns or fails; it never goes back to an earlier step, a run
\* that has finished does nothing more, and every answer of simulateRule
\* that does not end the run moves it on to the next required permission, of
\* which there are finitely many.
C20_Terminates ==
    /\ \A p \in Procs :
          (pc[p] \in {"awaitIdentity", "awaitRule"}) ~> (pc[p] \in {"done", "failed"})
    /\ [][\A p \in Procs :
            /\ pc'[p] # pc[p] \/ events'[p] # events[p]
               => <<pc[p], pc'[p]>> \in LinearSteps
            /\ idx'[p] >= idx[p]
            /\ idx'[p] <= Len(RequiredPermissions)
            /\ (pc[p] = "awaitRule" /\ pc'[p] = "awaitRule")
               => idx'[p] = idx[p] + 1]_vars

\* the run has simulated every required permission and returned
C20_Witness ==
    /\ pc[1] = "done"
    /\ idx[1] = Len(RequiredPermissions)
    /\ Cardinality(Settled(1)) = Len(RequiredPermissions)

(***************************************************************************)
(* Handle identity across equal arguments, checked under SpecCustom        *)
(***************************************************************************)
\* two customCredentials are equal: both null, or objects with the same
\* properties and values, in whatever order they were written
SameCustomCredentials(a, b) ==
    IF a = NullCredentials \/ b = NullCredentials THEN a = b
    ELSE {a.props[k] : k \in 1..Len(a.props)}
         = {b.props[k] : k \in 1..Len(b.props)}

SameArguments(x, y) ==
    /\ x.region = y.region
    /\ x.service = y.service
    /\ SameCustomCredentials(x.customCredentials, y.customCredentials)

\* C1 as stated: any two successful getServiceClient calls with equal
\* (region, service, customCredentials) returned the same handle instance.
C1_Original ==
    \A x \in returned : \A y \in returned :
        SameArguments(x[1], y[1]) => x[2] = y[2]

====
